---- MODULE Spec2Model ----
(***************************************************************************)
(* Cache-cost simulation core of the benchmark harness:                    *)
(*   - class TokenCache                      (src/lib/token-cache.ts)      *)
(*   - simulateCacheSavings                  (src/lib/utils.ts)            *)
(*                                                                         *)
(* One behaviour is either a direct use of a TokenCache object (construct, *)
(* then any interleaving of addMessage / getCacheStats /                   *)
(* calculateSimulatedCost), or one call of simulateCacheSavings, executed  *)
(* one loop iteration at a time.                                           *)
(*                                                                         *)
(* Numbers.  Token counts are JavaScript integers and are modelled as      *)
(* TLA+ integers.  Rates and costs are JavaScript numbers that may be      *)
(* undefined (an absent pricing field) or NaN (arithmetic on undefined);   *)
(* they are modelled as tagged values: Num(n), Undefined, NaN.  Rates are  *)
(* integers (cost per token in a fixed small unit), so floating-point      *)
(* rounding is outside the model.                                          *)
(***************************************************************************)
EXTENDS Integers, Sequences, FiniteSets, TLC

\* ------------------------------------------------------------------ bounds

\* Most TestResults in the collection handed to simulateCacheSavings.
MaxTests == 2
\* Most steps in the whole collection (summed over its tests).
MaxTotalSteps == 3
\* Most addMessage calls made on a directly used TokenCache.
MaxMessages == 3

\* ------------------------------------------------------- JavaScript values

Undefined == [undefined |-> TRUE]
Null == [null |-> TRUE]
NaN == [nan |-> TRUE]
Num(n) == [num |-> n]
IsNum(v) == v \notin {Undefined, Null, NaN}

\* !v for v a number or undefined: undefined, NaN and 0 are falsy.
Falsy(v) == v = Undefined \/ v = Null \/ v = NaN \/ v = Num(0)

\* A JavaScript string value, and typeof v === "string".
Str(s) == [str |-> s]
IsStr(v) == DOMAIN v = {"str"}

\* !v for v a string, a number, null or undefined: "" is falsy as well.
Not(v) == Falsy(v) \/ v = Str("")

\* String.prototype.startsWith and endsWith.
startsWith(s, prefix) ==
    Len(s) >= Len(prefix) /\ SubSeq(s, 1, Len(prefix)) = prefix
endsWith(s, suffix) ==
    Len(s) >= Len(suffix) /\ SubSeq(s, Len(s) - Len(suffix) + 1, Len(s)) = suffix

\* String.prototype.indexOf from position k (1-based; 0 when absent), and
\* replace with a string pattern: only the first occurrence is replaced.
RECURSIVE indexOfFrom(_, _, _)
indexOfFrom(s, pattern, k) ==
    IF k + Len(pattern) - 1 > Len(s) THEN 0
    ELSE IF SubSeq(s, k, k + Len(pattern) - 1) = pattern THEN k
    ELSE indexOfFrom(s, pattern, k + 1)
replace(s, pattern, replacement) ==
    LET k == indexOfFrom(s, pattern, 1)
    IN IF k = 0 THEN s
       ELSE SubSeq(s, 1, k - 1) \o replacement
              \o SubSeq(s, k + Len(pattern), Len(s))

\* a * b and a + b on JavaScript numbers: undefined converts to NaN, and NaN
\* is absorbing.
Times(a, b) == IF IsNum(a) /\ IsNum(b) THEN Num(a.num * b.num) ELSE NaN
Plus(a, b) == IF IsNum(a) /\ IsNum(b) THEN Num(a.num + b.num) ELSE NaN

\* Variant: the floor at zero is missing.
MathMax0_NoFloor(x) == x

\* Math.max(0, x) on an integer.
MathMax0(x) == IF x > 0 THEN x ELSE 0

\* ------------------------------------------------------------------ inputs

\* usage.inputTokens values of a step: those of the documented
\* 1000 -> 1500 -> 2000 run, in any order and with repetition.
InputTokenValues == {1000, 1500, 2000}
\* usage.outputTokens values of a step.
OutputTokenValues == {0, 50}
Steps == [inputTokens : InputTokenValues, outputTokens : OutputTokenValues]

\* The sequences over S of length n, and of length at most n.
RECURSIVE SeqsOfLen(_, _)
SeqsOfLen(S, n) ==
    IF n = 0 THEN {<<>>}
    ELSE {Append(s, x) : s \in SeqsOfLen(S, n - 1), x \in S}

SeqsUpTo(S, n) == UNION {SeqsOfLen(S, k) : k \in 0..n}

\* A SingleTestResult, reduced to its ordered steps, with at most n steps.
TestResultsUpTo(n) == {[steps |-> s] : s \in SeqsUpTo(Steps, n)}

\* The collections of at most n tests holding at most k steps in all.
RECURSIVE CollectionsUpTo(_, _)
CollectionsUpTo(n, k) ==
    IF n = 0 THEN {<<>>}
    ELSE {<<>>} \cup
         UNION {{<<t>> \o rest : rest \in CollectionsUpTo(n - 1, k - Len(t.steps))} :
                t \in TestResultsUpTo(k)}

\* The collections handed to simulateCacheSavings.
TestCollections == CollectionsUpTo(MaxTests, MaxTotalSteps)

\* Pricing tables.  The cache rates are optional fields; a rate of 0 is a
\* defined rate.
CacheReadRates == {Undefined, Num(0), Num(1)}
CacheCreationRates == {Undefined, Num(0), Num(2)}
OutputRates == {Num(3)}
InputRates == {Num(5)}
PricingTables ==
    [inputCostPerToken : InputRates,
     cacheReadInputTokenCost : CacheReadRates,
     cacheCreationInputTokenCost : CacheCreationRates,
     outputCostPerToken : OutputRates]

\* Arguments of a direct TokenCache use.
CtorTokenValues == {0, 1000}
\* Tables that are present but lack the output rate.
NoOutputRateTables ==
    [inputCostPerToken : InputRates,
     cacheReadInputTokenCost : {Undefined, Num(1)},
     cacheCreationInputTokenCost : {Num(2)},
     outputCostPerToken : {Undefined}]
CtorPricingArgs == PricingTables \cup NoOutputRateTables \cup {Null, Undefined}
NewTokenValues == {-500, 0, 500}
OutputTokenArgs == {Undefined, Num(50)}

\* ------------------------------------------------------------------- state

VARIABLES
    pc,                     \* where the behaviour is
    cache,                  \* the TokenCache object in use, or NoCache
    initialTokens,          \* direct use: the constructor's tokens argument
    calls,                  \* direct use: the addMessage arguments so far
    stats,                  \* direct use: last getCacheStats() result
    cost,                   \* direct use: last calculateSimulatedCost() result
    tests, pricing,         \* simulateCacheSavings: its arguments
    testIdx,                \* simulateCacheSavings: index of `test` in tests (1-based)
    i,                      \* simulateCacheSavings: inner loop variable (0-based)
    cachedPortion, newTokens,
    totalCacheHits, totalCacheWriteTokens, totalOutputTokens,
    simulatedInputCost, simulatedOutputCost,
    result,                 \* simulateCacheSavings: the returned object
    thrown,                 \* simulateCacheSavings: the Error thrown
    totalCost,              \* calculateTotalCost: the returned object
    config, routed,         \* getModelProvider: its argument, its outcome
    files, recent,          \* getMostRecentResultFile: the directory read, its outcome
    open, closeOnEscape,    \* Modal: the bindings destructured from $props()
    keydownListeners,       \* Modal: the keydown listeners registered on window
    effectPending,          \* Modal: the $effect is scheduled to run
    effectDeps,             \* Modal: the props the $effect read when it last ran
    effectCleanup,          \* Modal: the last run of the $effect returned a teardown
    event,                  \* Modal: the last keydown event dispatched on window
    dispatched,             \* Modal: number of keydown events dispatched
    oncloseCalls            \* Modal: number of calls of the onclose prop

cacheVars == <<cache>>
unitVars == <<initialTokens, calls, stats, cost>>
argVars == <<tests, pricing>>
loopVars == <<testIdx, i, cachedPortion, newTokens>>
accVars == <<totalCacheHits, totalCacheWriteTokens, totalOutputTokens,
             simulatedInputCost, simulatedOutputCost>>
outVars == <<result, thrown>>
extVars == <<totalCost, config, routed, files, recent>>
modalVars == <<open, closeOnEscape, keydownListeners, effectPending, effectDeps,
               effectCleanup, event, dispatched, oncloseCalls>>
vars == <<pc, cacheVars, unitVars, argVars, loopVars, accVars, outVars, extVars,
          modalVars>>

NoCache == [none |-> TRUE]
NoValue == [none |-> TRUE]

\* ------------------------------------------------------ class TokenCache

\* new TokenCache(tokens, pricing)
\* Variant: the constructor ignores its tokens argument.
NewTokenCache_Empty(tokens, pricingArg) ==
    [currentTokens |-> 0,
     totalCachedTokens |-> 0,
     messages |-> <<>>,
     pricing |-> IF pricingArg \in {Undefined, Null} THEN Null ELSE pricingArg,
     totalOutputTokens |-> 0]

NewTokenCache(tokens, pricingArg) ==
    [currentTokens |-> tokens,
     totalCachedTokens |-> 0,
     messages |-> <<>>,
     pricing |-> IF pricingArg \in {Undefined, Null} THEN Null ELSE pricingArg,
     totalOutputTokens |-> 0]

\* Variant: the cached total is taken after the new tokens are added.
addMessage_CachedAfter(c, message, tokens, outputTokensArg) ==
    LET outputTokens == IF outputTokensArg = Undefined THEN 0 ELSE outputTokensArg.num
    IN [c EXCEPT !.totalCachedTokens = c.totalCachedTokens + c.currentTokens + tokens,
                 !.currentTokens = c.currentTokens + tokens,
                 !.totalOutputTokens = c.totalOutputTokens + outputTokens,
                 !.messages = Append(c.messages, [message |-> message, tokens |-> tokens])]

\* Variant: the running total is overwritten with the new tokens ("=" for "+=").
addMessage_Overwrites(c, message, tokens, outputTokensArg) ==
    LET outputTokens == IF outputTokensArg = Undefined THEN 0 ELSE outputTokensArg.num
    IN [c EXCEPT !.totalCachedTokens = c.totalCachedTokens + c.currentTokens,
                 !.currentTokens = tokens,
                 !.totalOutputTokens = c.totalOutputTokens + outputTokens,
                 !.messages = Append(c.messages, [message |-> message, tokens |-> tokens])]

\* c.addMessage(message, tokens, outputTokens = 0): the object afterwards.
addMessage(c, message, tokens, outputTokensArg) ==
    LET outputTokens == IF outputTokensArg = Undefined THEN 0 ELSE outputTokensArg.num
    IN [c EXCEPT !.totalCachedTokens = c.totalCachedTokens + c.currentTokens,
                 !.currentTokens = c.currentTokens + tokens,
                 !.totalOutputTokens = c.totalOutputTokens + outputTokens,
                 !.messages = Append(c.messages, [message |-> message, tokens |-> tokens])]

\* Variant: the two token fields of the snapshot are swapped.
getCacheStats_Swapped(c) ==
    [totalCachedTokens |-> c.currentTokens,
     currentContextTokens |-> c.totalCachedTokens,
     messageCount |-> Len(c.messages)]

\* c.getCacheStats()
getCacheStats(c) ==
    [totalCachedTokens |-> c.totalCachedTokens,
     currentContextTokens |-> c.currentTokens,
     messageCount |-> Len(c.messages)]

\* Variant: the guard forgets the cache creation rate.
CostGuard_ReadOnly(c) ==
    \/ c.pricing = Null
    \/ Falsy(c.pricing.cacheReadInputTokenCost)

\* The guard of calculateSimulatedCost: pricing absent, or a cache rate falsy.
CostGuard(c) ==
    \/ c.pricing = Null
    \/ Falsy(c.pricing.cacheReadInputTokenCost)
    \/ Falsy(c.pricing.cacheCreationInputTokenCost)

ZeroCost ==
    [simulatedCost |-> Num(0), cacheReadCost |-> Num(0),
     cacheWriteCost |-> Num(0), outputCost |-> Num(0)]

\* c.calculateSimulatedCost()
calculateSimulatedCost(c) ==
    IF CostGuard(c) THEN ZeroCost
    ELSE LET cacheReadRate == c.pricing.cacheReadInputTokenCost
             cacheWriteRate == c.pricing.cacheCreationInputTokenCost
             cacheReadCost == Times(Num(c.totalCachedTokens), cacheReadRate)
             cacheWriteCost == Times(Num(c.currentTokens), cacheWriteRate)
             outputCost == Times(Num(c.totalOutputTokens), c.pricing.outputCostPerToken)
         IN [simulatedCost |-> Plus(Plus(cacheReadCost, cacheWriteCost), outputCost),
             cacheReadCost |-> cacheReadCost,
             cacheWriteCost |-> cacheWriteCost,
             outputCost |-> outputCost]

\* Arguments of getModelProvider: the MODEL string as the environment or a
\* caller may supply it, and each API key absent, empty or set.
ModelStrings ==
    {Undefined, Num(5), Str(""),
     Str("anthropic/claude"), Str("anthropic/"), Str("openai/gpt"),
     Str("openrouter/anthropic/claude"), Str("claude"),
     Str("my/anthropic/claude")}
ApiKeys == {Undefined, Str(""), Str("sk")}
ProviderConfigs ==
    [modelString : ModelStrings, anthropicApiKey : ApiKeys,
     openrouterApiKey : ApiKeys]
ProviderConfigsOpenAI ==
    [modelString : ModelStrings, anthropicApiKey : ApiKeys,
     openaiApiKey : ApiKeys, openrouterApiKey : ApiKeys]

\* Times at which a benchmark run saved its results (Date fields as the
\* getters return them: getMonth() is 0-based), chosen so that one- and
\* two-digit months and seconds and two years occur.
Timestamps ==
    {[year |-> t[1], month |-> t[2], date |-> 7, hours |-> 14, minutes |-> 30,
      seconds |-> t[3]] :
        t \in {<<2024, 8, 45>>, <<2024, 9, 5>>, <<2024, 9, 45>>, <<2025, 8, 5>>}}

\* Bound on the number of entries of the results directory.
MaxFiles == 3

\* Bound on the number of keydown events dispatched on window.
MaxKeydowns == 2

\* Values a parent passes for the boolean props of the Modal; closeOnEscape is
\* optional.
Bool(b) == [bool |-> b]
OpenProps == {Bool(TRUE), Bool(FALSE)}
CloseOnEscapeProps == {Undefined, Bool(TRUE), Bool(FALSE)}
Keys == {"Escape", "Enter"}

\* ------------------------------------------------------------------- Init

Init ==
    /\ pc = "idle"
    /\ cache = NoCache
    /\ initialTokens = 0
    /\ calls = <<>>
    /\ stats = NoValue
    /\ cost = NoValue
    /\ tests = <<>>
    /\ pricing = NoValue
    /\ testIdx = 0
    /\ i = 0
    /\ cachedPortion = 0
    /\ newTokens = 0
    /\ totalCacheHits = 0
    /\ totalCacheWriteTokens = 0
    /\ totalOutputTokens = 0
    /\ simulatedInputCost = Num(0)
    /\ simulatedOutputCost = Num(0)
    /\ result = NoValue
    /\ thrown = NoValue
    /\ totalCost = NoValue
    /\ config = NoValue
    /\ routed = NoValue
    /\ files = <<>>
    /\ recent = NoValue
    /\ open = NoValue
    /\ closeOnEscape = NoValue
    /\ keydownListeners = <<>>
    /\ effectPending = FALSE
    /\ effectDeps = {}
    /\ effectCleanup = FALSE
    /\ event = NoValue
    /\ dispatched = 0
    /\ oncloseCalls = 0

\* ------------------------------------------- direct use of a TokenCache

Construct ==
    /\ pc = "idle"
    /\ \E tokens \in CtorTokenValues, p \in CtorPricingArgs :
          /\ cache' = NewTokenCache(tokens, p)
          /\ initialTokens' = tokens
    /\ pc' = "object"
    /\ UNCHANGED <<calls, stats, cost, argVars, loopVars, accVars, outVars, extVars, modalVars>>

AddMessage ==
    /\ pc = "object"
    /\ Len(calls) < MaxMessages
    /\ \E tokens \in NewTokenValues, out \in OutputTokenArgs :
          /\ cache' = addMessage(cache, "message", tokens, out)
          /\ calls' = Append(calls, [tokens |-> tokens, outputTokens |-> out])
    /\ UNCHANGED <<pc, initialTokens, stats, cost, argVars, loopVars, accVars, outVars, extVars, modalVars>>

\* Variant: taking the snapshot counts as a cache read.
GetCacheStats_CountsRead ==
    /\ pc = "object"
    /\ stats' = getCacheStats(cache)
    /\ cache' = [cache EXCEPT !.totalCachedTokens = @ + cache.currentTokens]
    /\ UNCHANGED <<pc, initialTokens, calls, cost, argVars, loopVars, accVars, outVars, extVars, modalVars>>

GetCacheStats ==
    /\ pc = "object"
    /\ stats' = getCacheStats(cache)
    /\ UNCHANGED <<pc, cache, initialTokens, calls, cost, argVars, loopVars, accVars, outVars, extVars, modalVars>>

CalculateSimulatedCost ==
    /\ pc = "object"
    /\ cost' = calculateSimulatedCost(cache)
    /\ UNCHANGED <<pc, cache, initialTokens, calls, stats, argVars, loopVars, accVars, outVars, extVars, modalVars>>

\* ------------------------------------------------- simulateCacheSavings

\* Variant: the check forgets the cache creation rate.
CachePricingMissing_ReadOnly(p) == p.cacheReadInputTokenCost = Undefined

\* The configuration check at the top of simulateCacheSavings.
CachePricingMissing(p) ==
    \/ p.cacheReadInputTokenCost = Undefined
    \/ p.cacheCreationInputTokenCost = Undefined

CachePricingError ==
    [message |->
      "Cache pricing is required: cacheReadInputTokenCost and cacheCreationInputTokenCost must be defined"]

\* Variant: the first step is charged at the cache read rate.
FirstStepInputCost_ReadRate(firstStep, p) ==
    Times(Num(firstStep.inputTokens), p.cacheReadInputTokenCost)

\* Input cost of a test's first step: all of it at the cache creation rate.
FirstStepInputCost(firstStep, p) ==
    Times(Num(firstStep.inputTokens), p.cacheCreationInputTokenCost)

\* Variant: the two cache rates are swapped.
StepInputCost_Swapped(cp, nt, p) ==
    Plus(Times(Num(cp), p.cacheCreationInputTokenCost),
         Times(Num(nt), p.cacheReadInputTokenCost))

\* Input cost of a subsequent step: the cached portion at the read rate, the
\* new tokens at the creation rate.
StepInputCost(cp, nt, p) ==
    Plus(Times(Num(cp), p.cacheReadInputTokenCost),
         Times(Num(nt), p.cacheCreationInputTokenCost))

\* Variant: output tokens are charged at the input rate.
StepOutputCost_InputRate(step, p) == Times(Num(step.outputTokens), p.inputCostPerToken)

\* Output cost of a step.
StepOutputCost(step, p) == Times(Num(step.outputTokens), p.outputCostPerToken)

\* Entry: the configuration check, then the accumulators are initialised.
SimulateEnter ==
    /\ pc = "idle"
    /\ \E ts \in TestCollections, p \in PricingTables :
          /\ tests' = ts
          /\ pricing' = p
          /\ IF CachePricingMissing(p)
             THEN /\ thrown' = CachePricingError
                  /\ pc' = "threw"
                  /\ testIdx' = 0
             ELSE /\ thrown' = NoValue
                  /\ pc' = "forTest"
                  /\ testIdx' = 1
    /\ UNCHANGED <<cache, unitVars, i, cachedPortion, newTokens, accVars, result, extVars, modalVars>>

\* Variant: a test without steps ends the loop ("break" for "continue").
SkipTest_Breaks ==
    /\ pc = "forTest"
    /\ testIdx <= Len(tests)
    /\ Len(tests[testIdx].steps) = 0
    /\ testIdx' = Len(tests) + 1
    /\ UNCHANGED <<pc, cache, unitVars, argVars, i, cachedPortion, newTokens, accVars, outVars, extVars, modalVars>>

\* for (const test of tests): a test without steps is skipped.
SkipTest ==
    /\ pc = "forTest"
    /\ testIdx <= Len(tests)
    /\ Len(tests[testIdx].steps) = 0
    /\ testIdx' = testIdx + 1
    /\ UNCHANGED <<pc, cache, unitVars, argVars, i, cachedPortion, newTokens, accVars, outVars, extVars, modalVars>>

\* Variant: the cache outlives the test (created once, outside the loop).
FirstStep_ReusesCache ==
    /\ pc = "forTest"
    /\ testIdx <= Len(tests)
    /\ Len(tests[testIdx].steps) # 0
    /\ LET firstStep == tests[testIdx].steps[1]
           c == IF cache = NoCache
                THEN NewTokenCache(firstStep.inputTokens, pricing)
                ELSE cache
       IN /\ totalCacheWriteTokens' = totalCacheWriteTokens + firstStep.inputTokens
          /\ totalOutputTokens' = totalOutputTokens + firstStep.outputTokens
          /\ simulatedInputCost' =
                Plus(simulatedInputCost, FirstStepInputCost(firstStep, pricing))
          /\ simulatedOutputCost' =
                Plus(simulatedOutputCost, StepOutputCost(firstStep, pricing))
          /\ cache' = addMessage(c, "step-0", 0, Num(firstStep.outputTokens))
    /\ i' = 1
    /\ pc' = "forStep"
    /\ UNCHANGED <<unitVars, argVars, testIdx, cachedPortion, newTokens, totalCacheHits, outVars, extVars, modalVars>>

\* Variant: the cache is created but the first step is not logged in it.
FirstStep_NoStepZero ==
    /\ pc = "forTest"
    /\ testIdx <= Len(tests)
    /\ Len(tests[testIdx].steps) # 0
    /\ LET firstStep == tests[testIdx].steps[1]
       IN /\ totalCacheWriteTokens' = totalCacheWriteTokens + firstStep.inputTokens
          /\ totalOutputTokens' = totalOutputTokens + firstStep.outputTokens
          /\ simulatedInputCost' =
                Plus(simulatedInputCost, FirstStepInputCost(firstStep, pricing))
          /\ simulatedOutputCost' =
                Plus(simulatedOutputCost, StepOutputCost(firstStep, pricing))
          /\ cache' = NewTokenCache(firstStep.inputTokens, pricing)
    /\ i' = 1
    /\ pc' = "forStep"
    /\ UNCHANGED <<unitVars, argVars, testIdx, cachedPortion, newTokens, totalCacheHits, outVars, extVars, modalVars>>

\* for (const test of tests): the first step of a test with steps.
FirstStep ==
    /\ pc = "forTest"
    /\ testIdx <= Len(tests)
    /\ Len(tests[testIdx].steps) # 0
    /\ LET firstStep == tests[testIdx].steps[1]
       IN /\ totalCacheWriteTokens' = totalCacheWriteTokens + firstStep.inputTokens
          /\ totalOutputTokens' = totalOutputTokens + firstStep.outputTokens
          /\ simulatedInputCost' =
                Plus(simulatedInputCost, FirstStepInputCost(firstStep, pricing))
          /\ simulatedOutputCost' =
                Plus(simulatedOutputCost, StepOutputCost(firstStep, pricing))
          /\ cache' = addMessage(NewTokenCache(firstStep.inputTokens, pricing),
                                 "step-0", 0, Num(firstStep.outputTokens))
    /\ i' = 1
    /\ pc' = "forStep"
    /\ UNCHANGED <<unitVars, argVars, testIdx, cachedPortion, newTokens, totalCacheHits, outVars, extVars, modalVars>>

\* for (let i = 1; i < test.steps.length; i++): one subsequent step.
NextStep ==
    /\ pc = "forStep"
    /\ i < Len(tests[testIdx].steps)
    /\ LET step == tests[testIdx].steps[i + 1]
           cp == getCacheStats(cache).currentContextTokens
           nt == MathMax0(step.inputTokens - cp)
       IN /\ cachedPortion' = cp
          /\ newTokens' = nt
          /\ totalCacheHits' = totalCacheHits + cp
          /\ totalCacheWriteTokens' = totalCacheWriteTokens + nt
          /\ totalOutputTokens' = totalOutputTokens + step.outputTokens
          /\ simulatedInputCost' =
                Plus(simulatedInputCost, StepInputCost(cp, nt, pricing))
          /\ simulatedOutputCost' =
                Plus(simulatedOutputCost, StepOutputCost(step, pricing))
          /\ cache' = addMessage(cache, <<"step-", i>>, nt, Num(step.outputTokens))
    /\ i' = i + 1
    /\ UNCHANGED <<pc, unitVars, argVars, testIdx, outVars, extVars, modalVars>>

\* The inner loop ends; the outer loop moves to the next test.
EndTest ==
    /\ pc = "forStep"
    /\ i >= Len(tests[testIdx].steps)
    /\ testIdx' = testIdx + 1
    /\ pc' = "forTest"
    /\ UNCHANGED <<cache, unitVars, argVars, i, cachedPortion, newTokens, accVars, outVars, extVars, modalVars>>

\* The outer loop ends; the aggregate is returned.
Return ==
    /\ pc = "forTest"
    /\ testIdx > Len(tests)
    /\ result' =
          [simulatedCostWithCache |-> Plus(simulatedInputCost, simulatedOutputCost),
           simulatedInputCost |-> simulatedInputCost,
           simulatedOutputCost |-> simulatedOutputCost,
           cacheHits |-> totalCacheHits,
           cacheWriteTokens |-> totalCacheWriteTokens,
           outputTokens |-> totalOutputTokens]
    /\ pc' = "done"
    /\ UNCHANGED <<cache, unitVars, argVars, loopVars, accVars, thrown, extVars, modalVars>>

\* ---------------------------------------------------- calculateTotalCost

\* calculateCost(pricing, inputTokens, outputTokens) of pricing.ts: flat input
\* and output rates, and their sum.
calculateCost(p, inputTokens, outputTokens) ==
    LET inputCost == Times(Num(inputTokens), p.inputCostPerToken)
        outputCost == Times(Num(outputTokens), p.outputCostPerToken)
    IN [inputCost |-> inputCost, outputCost |-> outputCost,
        totalCost |-> Plus(inputCost, outputCost)]

\* Variant: the inner loop starts at the second step, as the simulator's does.
RECURSIVE AddSteps_SkipsFirst(_, _)
AddSteps_SkipsFirst(acc, steps) ==
    IF Len(steps) <= 1 THEN acc
    ELSE AddSteps_SkipsFirst(
            [inputTokens |-> acc.inputTokens + steps[Len(steps)].inputTokens,
             outputTokens |-> acc.outputTokens + steps[Len(steps)].outputTokens],
            SubSeq(steps, 1, Len(steps) - 1))

\* for (const step of test.steps): the running totals after the steps.
RECURSIVE AddSteps(_, _)
AddSteps(acc, steps) ==
    IF steps = <<>> THEN acc
    ELSE AddSteps([inputTokens |-> acc.inputTokens + Head(steps).inputTokens,
                   outputTokens |-> acc.outputTokens + Head(steps).outputTokens],
                  Tail(steps))

\* Variant: the totals are reset at the start of every test.
RECURSIVE AddTests_ResetsPerTest(_, _)
AddTests_ResetsPerTest(acc, ts) ==
    IF ts = <<>> THEN acc
    ELSE AddTests_ResetsPerTest(
            AddSteps([inputTokens |-> 0, outputTokens |-> 0], Head(ts).steps),
            Tail(ts))

\* for (const test of tests): the running totals after the tests.
RECURSIVE AddTests(_, _)
AddTests(acc, ts) ==
    IF ts = <<>> THEN acc
    ELSE AddTests(AddSteps(acc, Head(ts).steps), Tail(ts))

\* calculateTotalCost(tests, pricing)
calculateTotalCost(ts, p) ==
    LET totals == AddTests([inputTokens |-> 0, outputTokens |-> 0], ts)
        costResult == calculateCost(p, totals.inputTokens, totals.outputTokens)
    IN [inputCost |-> costResult.inputCost,
        outputCost |-> costResult.outputCost,
        totalCost |-> costResult.totalCost,
        inputTokens |-> totals.inputTokens,
        outputTokens |-> totals.outputTokens]

\* Outcomes of a call: the value returned, or the Error thrown.
Returned(v) == [returned |-> v]
Threw(message) == [threw |-> [message |-> message]]

\* ---------------------------------------------------- report generation

\* String(n) for a natural number, and padStart with a one-character pad.
Digits == "0123456789"
RECURSIVE String(_)
String(n) ==
    IF n < 10 THEN SubSeq(Digits, n + 1, n + 1)
    ELSE String(n \div 10) \o SubSeq(Digits, (n % 10) + 1, (n % 10) + 1)
RECURSIVE padStart(_, _, _)
padStart(s, targetLength, padString) ==
    IF Len(s) >= targetLength THEN s
    ELSE padStart(padString \o s, targetLength, padString)

\* getTimestampedFilename of src/index.ts, with `now` made a parameter.
getTimestampedFilename(prefix, extension, now) ==
    LET year == String(now.year)
        month == padStart(String(now.month + 1), 2, "0")
        day == padStart(String(now.date), 2, "0")
        hours == padStart(String(now.hours), 2, "0")
        minutes == padStart(String(now.minutes), 2, "0")
        seconds == padStart(String(now.seconds), 2, "0")
    IN prefix \o "-" \o year \o "-" \o month \o "-" \o day \o "-" \o hours
         \o "-" \o minutes \o "-" \o seconds \o "." \o extension

\* What the results directory can hold: the JSON trace and the HTML report of
\* each run, and entries that are not written by a run.
DirectoryEntries ==
    {getTimestampedFilename("result", ext, now) :
        ext \in {"json", "html"}, now \in Timestamps}
    \cup {".gitkeep", "notes.json", "result-notes.json"}

\* readdirSync: the entries, each once, in an order the file system chooses.
RECURSIVE ListingsOfLen(_, _)
ListingsOfLen(S, n) ==
    IF n = 0 THEN {<<>>}
    ELSE UNION {{Append(l, f) : f \in S \ {l[k] : k \in 1..Len(l)}} :
                   l \in ListingsOfLen(S, n - 1)}
Listings == UNION {ListingsOfLen(DirectoryEntries, n) : n \in 0..MaxFiles}

\* a.localeCompare(b) on the characters that occur in entry names: the
\* collation puts "-" and "." before digits and digits before letters, and a
\* proper prefix before the longer string.
CollationOrder == "-.0123456789abcdefghijklmnopqrstuvwxyz"
CollationRank(s, k) == indexOfFrom(CollationOrder, SubSeq(s, k, k), 1)
RECURSIVE localeCompareFrom(_, _, _)
localeCompareFrom(a, b, k) ==
    IF k > Len(a) /\ k > Len(b) THEN 0
    ELSE IF k > Len(a) THEN -1
    ELSE IF k > Len(b) THEN 1
    ELSE IF CollationRank(a, k) < CollationRank(b, k) THEN -1
    ELSE IF CollationRank(a, k) > CollationRank(b, k) THEN 1
    ELSE localeCompareFrom(a, b, k + 1)
localeCompare(a, b) == localeCompareFrom(a, b, 1)

\* Variant: ascending order.
compareFn_Ascending(a, b) == localeCompare(a, b)

\* (a, b) => b.localeCompare(a)
compareFn(a, b) == localeCompare(b, a)

\* Array.prototype.sort with compareFn (stable): x goes after every element
\* that does not sort after it.
RECURSIVE insertSorted(_, _)
insertSorted(sorted, x) ==
    IF sorted = <<>> THEN <<x>>
    ELSE IF compareFn(Head(sorted), x) <= 0
         THEN <<Head(sorted)>> \o insertSorted(Tail(sorted), x)
         ELSE <<x>> \o sorted
RECURSIVE sort(_)
sort(array) ==
    IF array = <<>> THEN <<>>
    ELSE insertSorted(sort(SubSeq(array, 1, Len(array) - 1)), array[Len(array)])

\* files.filter(file => file.startsWith("result-") && file.endsWith(".json"))
RECURSIVE filterResultFiles(_)
filterResultFiles(array) ==
    IF array = <<>> THEN <<>>
    ELSE IF startsWith(Head(array), "result-") /\ endsWith(Head(array), ".json")
         THEN <<Head(array)>> \o filterResultFiles(Tail(array))
         ELSE filterResultFiles(Tail(array))

\* getMostRecentResultFile() on a directory listing.
getMostRecentResultFile(listing) ==
    LET resultsDir == "results"
        resultFiles == filterResultFiles(listing)
    IN IF Len(resultFiles) = 0
       THEN Threw("No result files found in results/ directory")
       ELSE Returned(resultsDir \o "/" \o sort(resultFiles)[1])

GetMostRecentResultFile ==
    /\ pc = "idle"
    /\ \E listing \in Listings :
          /\ files' = listing
          /\ recent' = getMostRecentResultFile(listing)
    /\ pc' = "reported"
    /\ UNCHANGED <<cache, unitVars, argVars, loopVars, accVars, outVars,
                   totalCost, config, routed, modalVars>>

\* ------------------------------------------------------ provider routing

\* The models the provider SDKs hand back: anthropic(name), openai(name) and
\* createOpenRouter({apiKey}).chat(path).
anthropic(modelName) == [provider |-> "anthropic", modelId |-> modelName]
openai(modelName) == [provider |-> "openai", modelId |-> modelName]
openrouterChat(apiKey, modelPath) ==
    [provider |-> "openrouter", modelId |-> modelPath, apiKey |-> apiKey]

\* Variant: the OpenRouter branch tests the Anthropic key.
getModelProvider_WrongKey(c) ==
    IF Not(c.modelString) \/ ~IsStr(c.modelString)
    THEN Threw("MODEL environment variable is required and must be a string")
    ELSE IF startsWith(c.modelString.str, "anthropic/")
    THEN IF Not(c.anthropicApiKey)
         THEN Threw("ANTHROPIC_API_KEY is required for Anthropic models")
         ELSE Returned(anthropic(replace(c.modelString.str, "anthropic/", "")))
    ELSE IF startsWith(c.modelString.str, "openrouter/")
    THEN IF Not(c.anthropicApiKey)
         THEN Threw("OPENROUTER_API_KEY is required for OpenRouter models")
         ELSE Returned(openrouterChat(c.openrouterApiKey,
                          replace(c.modelString.str, "openrouter/", "")))
    ELSE Threw("Invalid MODEL format: \"" \o c.modelString.str
               \o "\". Must start with \"anthropic/\" or \"openrouter/\"")

\* getModelProvider of src/lib/providers.ts (Anthropic and OpenRouter).
getModelProvider(c) ==
    IF Not(c.modelString) \/ ~IsStr(c.modelString)
    THEN Threw("MODEL environment variable is required and must be a string")
    ELSE IF startsWith(c.modelString.str, "anthropic/")
    THEN IF Not(c.anthropicApiKey)
         THEN Threw("ANTHROPIC_API_KEY is required for Anthropic models")
         ELSE Returned(anthropic(replace(c.modelString.str, "anthropic/", "")))
    ELSE IF startsWith(c.modelString.str, "openrouter/")
    THEN IF Not(c.openrouterApiKey)
         THEN Threw("OPENROUTER_API_KEY is required for OpenRouter models")
         ELSE Returned(openrouterChat(c.openrouterApiKey,
                          replace(c.modelString.str, "openrouter/", "")))
    ELSE Threw("Invalid MODEL format: \"" \o c.modelString.str
               \o "\". Must start with \"anthropic/\" or \"openrouter/\"")

\* getModelProvider of the version with an OpenAI branch.
getModelProviderOpenAI(c) ==
    IF Not(c.modelString) \/ ~IsStr(c.modelString)
    THEN Threw("MODEL environment variable is required and must be a string")
    ELSE IF startsWith(c.modelString.str, "anthropic/")
    THEN IF Not(c.anthropicApiKey)
         THEN Threw("ANTHROPIC_API_KEY is required for Anthropic models")
         ELSE Returned(anthropic(replace(c.modelString.str, "anthropic/", "")))
    ELSE IF startsWith(c.modelString.str, "openai/")
    THEN IF Not(c.openaiApiKey)
         THEN Threw("OPENAI_API_KEY is required for OpenAI models")
         ELSE Returned(openai(replace(c.modelString.str, "openai/", "")))
    ELSE IF startsWith(c.modelString.str, "openrouter/")
    THEN IF Not(c.openrouterApiKey)
         THEN Threw("OPENROUTER_API_KEY is required for OpenRouter models")
         ELSE Returned(openrouterChat(c.openrouterApiKey,
                          replace(c.modelString.str, "openrouter/", "")))
    ELSE Threw("Invalid MODEL format: \"" \o c.modelString.str
               \o "\". Must start with \"anthropic/\", \"openai/\", or \"openrouter/\"")

GetModelProvider ==
    /\ pc = "idle"
    /\ \E c \in ProviderConfigs :
          /\ config' = c
          /\ routed' = getModelProvider(c)
    /\ pc' = "routed"
    /\ UNCHANGED <<cache, unitVars, argVars, loopVars, accVars, outVars,
                   totalCost, files, recent, modalVars>>

GetModelProviderOpenAI ==
    /\ pc = "idle"
    /\ \E c \in ProviderConfigsOpenAI :
          /\ config' = c
          /\ routed' = getModelProviderOpenAI(c)
    /\ pc' = "routedOpenAI"
    /\ UNCHANGED <<cache, unitVars, argVars, loopVars, accVars, outVars,
                   totalCost, files, recent, modalVars>>

\* ---------------------------------------------------- Modal (Reference)

\* let { open, closeOnEscape = true, ... } = $props(): a binding with a default.
WithDefault(prop, default) == IF prop = Undefined THEN default ELSE prop.bool

\* window.addEventListener / removeEventListener for one event type: a
\* listener already in the list is not added again.
addEventListener(listeners, listener) ==
    IF \E k \in 1..Len(listeners) : listeners[k] = listener
    THEN listeners
    ELSE Append(listeners, listener)
removeEventListener(listeners, listener) ==
    SelectSeq(listeners, LAMBDA l : l # listener)

\* handle_keydown(event) followed by handle_close(): the number of onclose
\* calls it makes.
handle_keydown(ev) == IF closeOnEscape /\ ev.key = "Escape" THEN 1 ELSE 0

\* The component is mounted with its props; the $effect is scheduled.
Mount ==
    /\ pc = "idle"
    /\ \E o \in OpenProps, c \in CloseOnEscapeProps :
          /\ open' = o.bool
          /\ closeOnEscape' = WithDefault(c, TRUE)
    /\ effectPending' = TRUE
    /\ pc' = "modal"
    /\ UNCHANGED <<cache, unitVars, argVars, loopVars, accVars, outVars, extVars,
                   keydownListeners, effectDeps, effectCleanup, event,
                   dispatched, oncloseCalls>>

\* The parent changes open, closeOnEscape or both; the $effect is scheduled
\* when a prop it read in its last run has changed.
SetProps ==
    /\ pc = "modal"
    /\ \E o \in OpenProps, c \in CloseOnEscapeProps :
          /\ <<o.bool, WithDefault(c, TRUE)>> # <<open, closeOnEscape>>
          /\ open' = o.bool
          /\ closeOnEscape' = WithDefault(c, TRUE)
    /\ effectPending' =
          \/ effectPending
          \/ open' # open /\ "open" \in effectDeps
          \/ closeOnEscape' # closeOnEscape /\ "closeOnEscape" \in effectDeps
    /\ UNCHANGED <<pc, cache, unitVars, argVars, loopVars, accVars, outVars, extVars,
                   keydownListeners, effectDeps, effectCleanup, event,
                   dispatched, oncloseCalls>>

\* The scheduled $effect runs: the teardown of its previous run first, then
\* its body.
RunEffect ==
    /\ pc = "modal"
    /\ effectPending
    /\ LET cleaned == IF effectCleanup
                      THEN removeEventListener(keydownListeners, "handle_keydown")
                      ELSE keydownListeners
       IN IF open /\ closeOnEscape
          THEN /\ keydownListeners' = addEventListener(cleaned, "handle_keydown")
               /\ effectCleanup' = TRUE
          ELSE /\ keydownListeners' = cleaned
               /\ effectCleanup' = FALSE
    /\ effectDeps' = IF open THEN {"open", "closeOnEscape"} ELSE {"open"}
    /\ effectPending' = FALSE
    /\ UNCHANGED <<pc, cache, unitVars, argVars, loopVars, accVars, outVars, extVars,
                   open, closeOnEscape, event, dispatched, oncloseCalls>>

\* A keydown event is dispatched on window: every registered listener runs.
Keydown ==
    /\ pc = "modal"
    /\ dispatched < MaxKeydowns
    /\ \E key \in Keys :
          /\ event' = [key |-> key]
          /\ oncloseCalls' =
                oncloseCalls + Len(keydownListeners) * handle_keydown([key |-> key])
    /\ dispatched' = dispatched + 1
    /\ UNCHANGED <<pc, cache, unitVars, argVars, loopVars, accVars, outVars, extVars,
                   open, closeOnEscape, keydownListeners, effectPending,
                   effectDeps, effectCleanup>>

\* ------------------------------------------------------ no-cache baseline

\* The no-cache baseline is computed for the collection and table the
\* simulation was called with, whether the simulation returned or threw.
CalculateTotalCost ==
    /\ pc \in {"done", "threw"}
    /\ totalCost = NoValue
    /\ totalCost' = calculateTotalCost(tests, pricing)
    /\ UNCHANGED <<pc, cache, unitVars, argVars, loopVars, accVars, outVars,
                   config, routed, files, recent, modalVars>>

\* ------------------------------------------------------------------- Spec

Next ==
    \/ Construct
    \/ AddMessage
    \/ GetCacheStats
    \/ CalculateSimulatedCost
    \/ SimulateEnter
    \/ SkipTest
    \/ FirstStep
    \/ NextStep
    \/ EndTest
    \/ Return
    \/ CalculateTotalCost
    \/ GetModelProvider
    \/ GetModelProviderOpenAI
    \/ GetMostRecentResultFile
    \/ Mount
    \/ SetProps
    \/ RunEffect
    \/ Keydown

Spec == Init /\ [][Next]_vars

\* ------------------------------------------------------------ properties

\* Sum of f[k] over k in 1..n.
RECURSIVE SumTo(_, _)
SumTo(f, n) == IF n = 0 THEN 0 ELSE f[n] + SumTo(f, n - 1)

\* The new-token counts n1..nk of the addMessage calls made so far.
CallTokens == [k \in 1..Len(calls) |-> calls[k].tokens]
\* currentContextTokens held immediately before the k-th addMessage call.
ContextBefore == [k \in 1..Len(calls) |-> initialTokens + SumTo(CallTokens, k - 1)]

DirectUse == pc = "object"
Simulating == pc \in {"forTest", "forStep", "done"}

\* C1: TokenCache accounting.  Constructed with initialTokens = T0 and after
\* addMessage calls with new-token counts n1..nk, getCacheStats() gives
\* currentContextTokens = T0 + n1 + ... + nk, messageCount = k, and
\* totalCachedTokens = the sum of the currentContextTokens values held
\* immediately before each call (all 0 / T0 / 0 right after construction).
C1_Accounting ==
    DirectUse =>
        LET st == getCacheStats(cache)
        IN /\ st.currentContextTokens = initialTokens + SumTo(CallTokens, Len(calls))
           /\ st.messageCount = Len(calls)
           /\ st.totalCachedTokens = SumTo(ContextBefore, Len(calls))
           /\ (calls = <<>> =>
                 st = [totalCachedTokens |-> 0, currentContextTokens |-> initialTokens,
                       messageCount |-> 0])
           /\ (stats # NoValue /\ stats.messageCount = Len(calls) => stats = st)

\* C1 witness: T0 = 1000, calls with 500 and 500: the snapshot returned by
\* getCacheStats() reads 1000 + 1500 cached tokens and a context of 2000.
C1_Witness ==
    /\ DirectUse
    /\ initialTokens = 1000
    /\ Len(calls) = 2 /\ calls[1].tokens = 500 /\ calls[2].tokens = 500
    /\ stats = [totalCachedTokens |-> 2500, currentContextTokens |-> 2000, messageCount |-> 2]

\* C2: monotonic context growth.  An addMessage call with non-negative
\* newTokens never decreases currentContextTokens; and while
\* simulateCacheSavings processes the steps of one TestResult the cache's
\* currentContextTokens starts at the first step's inputTokens and never
\* decreases from step to step.
C2_Monotonic ==
    [][/\ (DirectUse /\ Len(calls') = Len(calls) + 1 /\ calls'[Len(calls')].tokens >= 0
             => cache'.currentTokens >= cache.currentTokens)
       /\ (pc = "forTest" /\ pc' = "forStep"
             => cache'.currentTokens >= tests[testIdx].steps[1].inputTokens)
       /\ (pc = "forStep" /\ pc' = "forStep"
             => cache'.currentTokens >= cache.currentTokens)]_vars

\* C2 witness: the simulator has processed a step that reported fewer input
\* tokens than the context held, after the context had grown.
C2_Witness ==
    /\ pc = "forStep"
    /\ i = 3
    /\ tests[testIdx].steps[2].inputTokens > tests[testIdx].steps[1].inputTokens
    /\ tests[testIdx].steps[3].inputTokens < tests[testIdx].steps[2].inputTokens
    /\ cache.currentTokens = tests[testIdx].steps[2].inputTokens

NonDecreasing(steps) ==
    \A k \in 1..(Len(steps) - 1) : steps[k].inputTokens <= steps[k + 1].inputTokens
InputsOf(steps) == [k \in 1..Len(steps) |-> steps[k].inputTokens]
OutputsOf(steps) == [k \in 1..Len(steps) |-> steps[k].outputTokens]

\* C3: growing-prefix scenario.  For a single TestResult whose step
\* inputTokens i0 <= i1 <= ... <= ik are non-decreasing, simulateCacheSavings
\* returns cacheHits = i0 + ... + i(k-1) and cacheWriteTokens = ik; for
\* inputs [1000, 1500, 2000] that is cacheHits = 2500, cacheWriteTokens = 2000.
C3_GrowingPrefix ==
    /\ pc = "done" /\ Len(tests) = 1 /\ Len(tests[1].steps) >= 1
          /\ NonDecreasing(tests[1].steps)
       => LET steps == tests[1].steps
          IN /\ result.cacheHits = SumTo(InputsOf(steps), Len(steps) - 1)
             /\ result.cacheWriteTokens = steps[Len(steps)].inputTokens
    /\ pc = "done" /\ Len(tests) = 1 /\ InputsOf(tests[1].steps) = <<1000, 1500, 2000>>
       => result.cacheHits = 2500 /\ result.cacheWriteTokens = 2000

\* C3 witness: the documented run, inputs [1000, 1500, 2000] and outputs
\* [50, 50, 50], has returned.
C3_Witness ==
    /\ pc = "done"
    /\ tests = <<[steps |-> <<[inputTokens |-> 1000, outputTokens |-> 50],
                              [inputTokens |-> 1500, outputTokens |-> 50],
                              [inputTokens |-> 2000, outputTokens |-> 50]>>]>>
    /\ result.cacheHits = 2500
    /\ result.cacheWriteTokens = 2000

\* C4: negative-delta defense.  A step of index >= 1 whose inputTokens is
\* less than the cache's current context size gets newTokens = 0, leaves the
\* running cacheWriteTokens total unchanged and leaves currentContextTokens
\* at its value before the step.
C4_NegativeDelta ==
    [][pc = "forStep" /\ i < Len(tests[testIdx].steps)
         /\ tests[testIdx].steps[i + 1].inputTokens < cache.currentTokens
       => /\ newTokens' = 0
          /\ totalCacheWriteTokens' = totalCacheWriteTokens
          /\ cache'.currentTokens = cache.currentTokens
          /\ cache'.messages[Len(cache'.messages)].tokens = 0]_vars

\* C4 witness: a step reporting 1000 input tokens has been processed against
\* a context of 2000.
C4_Witness ==
    /\ pc = "forStep"
    /\ i = 2
    /\ tests[testIdx].steps[1].inputTokens = 2000
    /\ tests[testIdx].steps[2].inputTokens = 1000
    /\ cachedPortion = 2000
    /\ newTokens = 0
    /\ cache.currentTokens = 2000

\* A pricing table lacks a cache rate when either field is absent.
LacksCacheRate(p) ==
    p.cacheReadInputTokenCost = Undefined \/ p.cacheCreationInputTokenCost = Undefined

\* C5: missing configuration fails fast.  simulateCacheSavings called with a
\* pricing table lacking cacheReadInputTokenCost or cacheCreationInputTokenCost
\* throws the configuration error before any TestResult is processed: no test
\* is read, no TokenCache is created, nothing is accumulated or returned,
\* whatever the tests collection (the empty one included).
C5_FailsFast ==
    pc \in {"threw", "forTest", "forStep", "done"} /\ LacksCacheRate(pricing)
    => /\ pc = "threw"
       /\ thrown # NoValue
       /\ result = NoValue
       /\ cache = NoCache
       /\ testIdx = 0 /\ i = 0
       /\ totalCacheHits = 0 /\ totalCacheWriteTokens = 0 /\ totalOutputTokens = 0
       /\ simulatedInputCost = Num(0) /\ simulatedOutputCost = Num(0)

\* C5 witness: the call threw for a non-empty collection and a table that has
\* the read rate but lacks the creation rate.
C5_Witness ==
    /\ pc = "threw"
    /\ thrown = CachePricingError
    /\ Len(tests) >= 1 /\ Len(tests[1].steps) >= 1
    /\ pricing.cacheReadInputTokenCost = Num(1)
    /\ pricing.cacheCreationInputTokenCost = Undefined

AllZeroCost ==
    [simulatedCost |-> Num(0), cacheReadCost |-> Num(0),
     cacheWriteCost |-> Num(0), outputCost |-> Num(0)]

\* C6: zero-rate guard.  calculateSimulatedCost returns the all-zero breakdown
\* whenever the cache was constructed with pricing null or omitted, or with a
\* table lacking cacheReadInputTokenCost or cacheCreationInputTokenCost,
\* whatever addMessage calls were made before.
C6_ZeroRateGuard ==
    DirectUse /\ (cache.pricing = Null \/ LacksCacheRate(cache.pricing))
    => /\ calculateSimulatedCost(cache) = AllZeroCost
       /\ cost \in {NoValue, AllZeroCost}

\* C6 witness: calculateSimulatedCost returned all zeros on a cache that holds
\* tokens and output tokens and whose table has a read rate but no creation
\* rate.
C6_Witness ==
    /\ DirectUse
    /\ cost = AllZeroCost
    /\ Len(calls) >= 2
    /\ cache.currentTokens > 0 /\ cache.totalCachedTokens > 0 /\ cache.totalOutputTokens > 0
    /\ cache.pricing # Null
    /\ cache.pricing.cacheReadInputTokenCost = Num(1)
    /\ cache.pricing.cacheCreationInputTokenCost = Undefined

\* C7: simulated-cost formula.  For every TokenCache whose pricing table
\* defines both cache rates (non-negative integers, 0 included),
\* calculateSimulatedCost returns cacheReadCost = totalCachedTokens x
\* cacheReadRate, cacheWriteCost = currentContextTokens x cacheWriteRate,
\* outputCost = totalOutputTokens x outputRate, and simulatedCost = their sum.
C7_CostFormula ==
    [][DirectUse /\ cost' # cost
         /\ cache.pricing # Null /\ ~LacksCacheRate(cache.pricing)
       => LET read == Times(Num(cache.totalCachedTokens),
                            cache.pricing.cacheReadInputTokenCost)
              write == Times(Num(cache.currentTokens),
                             cache.pricing.cacheCreationInputTokenCost)
              out == Times(Num(cache.totalOutputTokens), cache.pricing.outputCostPerToken)
          IN /\ cost'.cacheReadCost = read
             /\ cost'.cacheWriteCost = write
             /\ cost'.outputCost = out
             /\ cost'.simulatedCost = Plus(Plus(read, write), out)]_vars

\* C8: simulator first-step cost.  For a single TestResult with exactly one
\* step (inputTokens = I, outputTokens = O) simulateCacheSavings returns
\* simulatedInputCost = I x cacheWriteRate, simulatedOutputCost = O x
\* outputRate, cacheWriteTokens = I, cacheHits = 0, outputTokens = O; the
\* cache read rate does not enter.
C8_FirstStepCost ==
    pc = "done" /\ Len(tests) = 1 /\ Len(tests[1].steps) = 1
    => LET step == tests[1].steps[1]
       IN /\ result.simulatedInputCost =
                Times(Num(step.inputTokens), pricing.cacheCreationInputTokenCost)
          /\ result.simulatedOutputCost =
                Times(Num(step.outputTokens), pricing.outputCostPerToken)
          /\ result.cacheWriteTokens = step.inputTokens
          /\ result.cacheHits = 0
          /\ result.outputTokens = step.outputTokens

\* C8 witness: the one-step run I = 1000, O = 50 has returned, under a table
\* whose read rate (1) differs from its creation rate (2).
C8_Witness ==
    /\ pc = "done"
    /\ tests = <<[steps |-> <<[inputTokens |-> 1000, outputTokens |-> 50]>>]>>
    /\ pricing.cacheReadInputTokenCost = Num(1)
    /\ pricing.cacheCreationInputTokenCost = Num(2)
    /\ result.cacheWriteTokens = 1000 /\ result.cacheHits = 0
    /\ result.simulatedInputCost = Num(2000)
    /\ result.simulatedOutputCost = Num(150)

\* C9: aggregate cost identity.  The running totals, and so the returned
\* aggregate, satisfy simulatedInputCost = cacheHits x cacheReadRate +
\* cacheWriteTokens x cacheWriteRate, simulatedOutputCost = outputTokens x
\* outputRate, simulatedCostWithCache = simulatedInputCost +
\* simulatedOutputCost; and each step of index >= 1 adds cachedPortion (the
\* cache's currentContextTokens before the step) to cacheHits and newTokens to
\* cacheWriteTokens.
C9_AggregateIdentity ==
    /\ [](pc \in {"forTest", "forStep", "done"} =>
            /\ simulatedInputCost =
                  Plus(Times(Num(totalCacheHits), pricing.cacheReadInputTokenCost),
                       Times(Num(totalCacheWriteTokens), pricing.cacheCreationInputTokenCost))
            /\ simulatedOutputCost =
                  Times(Num(totalOutputTokens), pricing.outputCostPerToken))
    /\ [](pc = "done" =>
            /\ result.simulatedInputCost =
                  Plus(Times(Num(result.cacheHits), pricing.cacheReadInputTokenCost),
                       Times(Num(result.cacheWriteTokens), pricing.cacheCreationInputTokenCost))
            /\ result.simulatedOutputCost =
                  Times(Num(result.outputTokens), pricing.outputCostPerToken)
            /\ result.simulatedCostWithCache =
                  Plus(result.simulatedInputCost, result.simulatedOutputCost))
    /\ [][pc = "forStep" /\ i < Len(tests[testIdx].steps)
            => /\ cachedPortion' = cache.currentTokens
               /\ totalCacheHits' = totalCacheHits + cachedPortion'
               /\ totalCacheWriteTokens' = totalCacheWriteTokens + newTokens']_vars

\* C9 witness: a two-test collection has returned with cache hits and with
\* new tokens written after a first step, under distinct non-zero cache rates.
C9_Witness ==
    /\ pc = "done"
    /\ Len(tests) = 2
    /\ Len(tests[1].steps) = 2 /\ Len(tests[2].steps) = 1
    /\ pricing.cacheReadInputTokenCost = Num(1)
    /\ pricing.cacheCreationInputTokenCost = Num(2)
    /\ result.cacheHits = 1000
    /\ result.cacheWriteTokens = 1500 + 2000
    /\ result.simulatedInputCost = Num(1000 + 2 * 3500)

\* The closed form of one test's contribution: the resident prefix before a
\* step is the largest inputTokens seen so far in the test.
RECURSIVE MaxTo(_, _)
MaxTo(f, n) ==
    IF n = 1 THEN f[1]
    ELSE LET m == MaxTo(f, n - 1) IN IF f[n] > m THEN f[n] ELSE m
PrefixMax(steps) == [k \in 1..Len(steps) |-> MaxTo(InputsOf(steps), k)]
HitsOf(steps) == SumTo(PrefixMax(steps), Len(steps) - 1)
WritesOf(steps) == MaxTo(InputsOf(steps), Len(steps))
OutputOf(steps) == SumTo(OutputsOf(steps), Len(steps))

\* The tests of a collection that have steps, in order.
WithSteps(ts) == SelectSeq(ts, LAMBDA t : Len(t.steps) > 0)

\* The aggregate of a collection of tests that all have steps.
ExpectedResult(ts, p) ==
    LET hits == SumTo([k \in 1..Len(ts) |-> HitsOf(ts[k].steps)], Len(ts))
        writes == SumTo([k \in 1..Len(ts) |-> WritesOf(ts[k].steps)], Len(ts))
        outs == SumTo([k \in 1..Len(ts) |-> OutputOf(ts[k].steps)], Len(ts))
        inCost == Plus(Times(Num(hits), p.cacheReadInputTokenCost),
                       Times(Num(writes), p.cacheCreationInputTokenCost))
        outCost == Times(Num(outs), p.outputCostPerToken)
    IN [simulatedCostWithCache |-> Plus(inCost, outCost),
        simulatedInputCost |-> inCost,
        simulatedOutputCost |-> outCost,
        cacheHits |-> hits,
        cacheWriteTokens |-> writes,
        outputTokens |-> outs]

\* C10: empty input.  With valid cache pricing simulateCacheSavings never
\* throws; for the empty collection it returns all-zero aggregates; and a test
\* without steps contributes nothing: skipping it changes no accumulator, and
\* the returned aggregate is that of the collection with its zero-step tests
\* removed, so inserting or removing zero-step tests anywhere changes no field.
C10_EmptyInput ==
    /\ [](pc = "threw" => LacksCacheRate(pricing))
    /\ [](pc = "done" /\ WithSteps(tests) = <<>> =>
            result = [simulatedCostWithCache |-> Num(0), simulatedInputCost |-> Num(0),
                      simulatedOutputCost |-> Num(0), cacheHits |-> 0,
                      cacheWriteTokens |-> 0, outputTokens |-> 0])
    /\ [](pc = "done" => result = ExpectedResult(WithSteps(tests), pricing))
    /\ [][pc = "forTest" /\ testIdx <= Len(tests) /\ Len(tests[testIdx].steps) = 0
            => /\ UNCHANGED <<accVars, cache, outVars>>
               /\ pc' = "forTest"
               /\ testIdx' = testIdx + 1]_vars

\* C10 witness: a collection whose first test has no steps and whose second
\* test has two has returned the second test's contribution.
C10_Witness ==
    /\ pc = "done"
    /\ Len(tests) = 2
    /\ tests[1].steps = <<>>
    /\ InputsOf(tests[2].steps) = <<1000, 1500>>
    /\ result.cacheHits = 1000 /\ result.cacheWriteTokens = 1500

\* The aggregate of the one-test collection <<t>>, in closed form.
SingleResult(t, p) == ExpectedResult(WithSteps(<<t>>), p)

\* Sum of the JavaScript numbers f[1..n].
RECURSIVE PlusTo(_, _)
PlusTo(f, n) == IF n = 0 THEN Num(0) ELSE Plus(PlusTo(f, n - 1), f[n])

\* C11: test isolation.  The aggregate returned for a one-test collection
\* <<t>> is SingleResult(t), and each field of the aggregate returned for any
\* collection is the sum of that field over the one-test aggregates of its
\* tests: a test's contribution depends neither on the tests simulated before
\* it nor on their order.
C11_TestIsolation ==
    /\ pc = "done" /\ Len(tests) = 1 => result = SingleResult(tests[1], pricing)
    /\ pc = "done" =>
          LET single == [k \in 1..Len(tests) |-> SingleResult(tests[k], pricing)]
              n == Len(tests)
          IN /\ result.cacheHits = SumTo([k \in 1..n |-> single[k].cacheHits], n)
             /\ result.cacheWriteTokens =
                   SumTo([k \in 1..n |-> single[k].cacheWriteTokens], n)
             /\ result.outputTokens = SumTo([k \in 1..n |-> single[k].outputTokens], n)
             /\ result.simulatedInputCost =
                   PlusTo([k \in 1..n |-> single[k].simulatedInputCost], n)
             /\ result.simulatedOutputCost =
                   PlusTo([k \in 1..n |-> single[k].simulatedOutputCost], n)
             /\ result.simulatedCostWithCache =
                   PlusTo([k \in 1..n |-> single[k].simulatedCostWithCache], n)

\* C11 witness: a test with inputs [1000, 1500] was simulated after a test
\* whose context had reached 2000, and contributed 1000 cache hits.
C11_Witness ==
    /\ pc = "done"
    /\ Len(tests) = 2
    /\ InputsOf(tests[1].steps) = <<2000>>
    /\ InputsOf(tests[2].steps) = <<1000, 1500>>
    /\ result.cacheHits = 1000
    /\ result.cacheWriteTokens = 2000 + 1500

\* All steps of a collection, test after test.
RECURSIVE AllSteps(_)
AllSteps(ts) == IF ts = <<>> THEN <<>> ELSE Head(ts).steps \o AllSteps(Tail(ts))

\* C12: no-cache baseline.  calculateTotalCost(tests, pricing) returns
\* inputTokens and outputTokens as the sums of usage.inputTokens and
\* usage.outputTokens over every step of every test (tests without steps add
\* nothing), inputCost = inputTokens x inputRate, outputCost = outputTokens x
\* outputRate, totalCost = inputCost + outputCost; the cache rates, present or
\* absent, do not enter.
C12_Baseline ==
    totalCost # NoValue =>
        LET all == AllSteps(tests)
            inTok == SumTo(InputsOf(all), Len(all))
            outTok == SumTo(OutputsOf(all), Len(all))
        IN /\ totalCost.inputTokens = inTok
           /\ totalCost.outputTokens = outTok
           /\ totalCost.inputCost = Times(Num(inTok), pricing.inputCostPerToken)
           /\ totalCost.outputCost = Times(Num(outTok), pricing.outputCostPerToken)
           /\ totalCost.totalCost = Plus(totalCost.inputCost, totalCost.outputCost)

\* C12 witness: the baseline of a collection holding a test without steps and
\* a test with inputs [2000, 1000], under a table without cache rates.
C12_Witness ==
    /\ totalCost # NoValue
    /\ pc = "threw"
    /\ pricing.cacheReadInputTokenCost = Undefined
    /\ pricing.cacheCreationInputTokenCost = Undefined
    /\ Len(tests) = 2
    /\ tests[1].steps = <<>>
    /\ tests[2].steps = <<[inputTokens |-> 2000, outputTokens |-> 50],
                          [inputTokens |-> 1000, outputTokens |-> 0]>>
    /\ totalCost.inputTokens = 3000
    /\ totalCost.outputTokens = 50
    /\ totalCost.inputCost = Num(15000)
    /\ totalCost.totalCost = Num(15150)

\* The object that the addMessage calls cs alone produce from c.
RECURSIVE Replay(_, _)
Replay(c, cs) ==
    IF cs = <<>> THEN c
    ELSE Replay(addMessage(c, "message", Head(cs).tokens, Head(cs).outputTokens), Tail(cs))

\* C13: read-only queries.  getCacheStats and calculateSimulatedCost leave
\* currentContextTokens, totalCachedTokens, totalOutputTokens and the message
\* log unchanged; however many of them are called between addMessage calls,
\* the object is the one the addMessage calls alone produce, so the result of
\* a later query does not depend on earlier queries.
C13_ReadOnlyQueries ==
    /\ [][DirectUse /\ (stats' # stats \/ cost' # cost) => cache' = cache]_vars
    /\ [](DirectUse =>
            cache = Replay(NewTokenCache(initialTokens, cache.pricing), calls))
    /\ [](DirectUse /\ stats # NoValue /\ stats.messageCount = Len(calls)
            => stats = getCacheStats(Replay(NewTokenCache(initialTokens, cache.pricing), calls)))

\* C13 witness: a snapshot was taken and a cost computed after the first of
\* two addMessage calls, and the object still shows exactly the two calls.
C13_Witness ==
    /\ DirectUse
    /\ Len(calls) = 2
    /\ stats # NoValue /\ stats.messageCount = 1
    /\ cost # NoValue /\ cost # calculateSimulatedCost(cache)
    /\ Len(cache.messages) = 2

\* C14: degraded-but-successful result.  When the pricing table is present
\* with both cache rates but lacks the output rate, calculateSimulatedCost
\* returns the all-zero breakdown, never a non-numeric cost.
C14_DegradedResult ==
    DirectUse /\ cost # NoValue
       /\ cache.pricing # Null
       /\ ~LacksCacheRate(cache.pricing)
       /\ cache.pricing.outputCostPerToken = Undefined
    => /\ cost = AllZeroCost
       /\ IsNum(cost.outputCost) /\ IsNum(cost.simulatedCost)

\* C15: previous step's full input is cached.  For every step of index
\* i >= 1 of a test, the tokens charged at the cache-read rate for that step
\* (cachedPortion) equal the inputTokens of step i-1 of the same test.
C15_PreviousInputCached ==
    [][pc = "forStep" /\ i < Len(tests[testIdx].steps)
       => /\ cachedPortion' = tests[testIdx].steps[i].inputTokens
          /\ totalCacheHits' = totalCacheHits + tests[testIdx].steps[i].inputTokens]_vars

\* C16: simulated output tokens are unchanged from the non-cached baseline.
\* For the same collection and table, simulateCacheSavings' outputTokens
\* equals calculateTotalCost's outputTokens, and simulatedOutputCost equals
\* the baseline outputCost = outputTokens x outputRate.
C16_OutputUnchanged ==
    pc = "done" /\ totalCost # NoValue
    => /\ result.outputTokens = totalCost.outputTokens
       /\ result.simulatedOutputCost = totalCost.outputCost
       /\ result.simulatedOutputCost =
             Times(Num(totalCost.outputTokens), pricing.outputCostPerToken)

\* C16 witness: both functions have returned for a two-test collection whose
\* steps produced output tokens in the first and in a later step.
C16_Witness ==
    /\ pc = "done" /\ totalCost # NoValue
    /\ Len(tests) = 2
    /\ OutputsOf(tests[1].steps) = <<50, 0>>
    /\ OutputsOf(tests[2].steps) = <<50>>
    /\ result.outputTokens = 100
    /\ totalCost.outputCost = Num(300)

\* The supported prefixes with the config field and the environment name of
\* each provider's key.
AnthropicProvider ==
    [prefix |-> "anthropic/", key |-> "anthropicApiKey", env |-> "ANTHROPIC_API_KEY"]
OpenAIProvider ==
    [prefix |-> "openai/", key |-> "openaiApiKey", env |-> "OPENAI_API_KEY"]
OpenRouterProvider ==
    [prefix |-> "openrouter/", key |-> "openrouterApiKey", env |-> "OPENROUTER_API_KEY"]

\* The providers among `supported` that the model string of `c` selects.
SelectedProviders(c, supported) ==
    {q \in supported :
        IsStr(c.modelString) /\ startsWith(c.modelString.str, q.prefix)}

HasReturned(out) == "returned" \in DOMAIN out
HasThrown(out) == "threw" \in DOMAIN out

\* What the routing contract requires of outcome `out` of route(c), for c
\* drawn from `configs`.
RoutingContract(c, out, supported, configs, route(_)) ==
    LET m == c.modelString
        sel == SelectedProviders(c, supported)
    IN /\ HasReturned(out) \/ HasThrown(out)
       /\ HasReturned(out) <=>
             /\ IsStr(m) /\ m # Str("")
             /\ \E q \in sel : ~Not(c[q.key])
       /\ m = Str("") => HasThrown(out)
       /\ \A q \in sel :
             Not(c[q.key]) => /\ HasThrown(out)
                              /\ startsWith(out.threw.message, q.env)
       /\ IsStr(m) /\ m # Str("") /\ sel = {} => HasThrown(out)
       /\ \A q \in sel :
             HasReturned(out) => q.prefix \o out.returned.modelId = m.str
       /\ \A c2 \in configs :
             /\ c2.modelString = m
             /\ \A q \in sel : c2[q.key] = c[q.key]
             => route(c2) = out

\* C17: getModelProvider returns a model exactly when the model string is a
\* non-empty string with a supported prefix and the selected provider's key
\* is present; it throws on an empty string, on a missing selected key (the
\* message names that key) and on an unsupported prefix; and the other
\* providers' keys never change the outcome. Both versions.
C17_ProviderRouting ==
    /\ pc = "routed" =>
          RoutingContract(config, routed,
                          {AnthropicProvider, OpenRouterProvider},
                          ProviderConfigs, getModelProvider)
    /\ pc = "routedOpenAI" =>
          RoutingContract(config, routed,
                          {AnthropicProvider, OpenAIProvider, OpenRouterProvider},
                          ProviderConfigsOpenAI, getModelProviderOpenAI)

\* C17 witness: an OpenRouter model was returned although the Anthropic key
\* is absent.
C17_Witness ==
    /\ pc = "routed"
    /\ config.modelString = Str("openrouter/anthropic/claude")
    /\ config.anthropicApiKey = Undefined
    /\ config.openrouterApiKey = Str("sk")
    /\ HasReturned(routed)
    /\ routed.returned.modelId = "anthropic/claude"

MatchingEntries(listing) ==
    {listing[k] : k \in {j \in 1..Len(listing) :
        startsWith(listing[j], "result-") /\ endsWith(listing[j], ".json")}}

\* The JSON trace saved at time `now`.
TraceName(now) == getTimestampedFilename("result", "json", now)

\* Time a is not later than time b.
NotLater(a, b) ==
    LET ta == <<a.year, a.month, a.date, a.hours, a.minutes, a.seconds>>
        tb == <<b.year, b.month, b.date, b.hours, b.minutes, b.seconds>>
    IN \/ ta = tb
       \/ \E k \in 1..6 : /\ ta[k] < tb[k]
                          /\ \A j \in 1..(k - 1) : ta[j] = tb[j]

C22_TokenConservation ==
    pc = "done" /\ totalCost # NoValue
    => /\ result.cacheHits + result.cacheWriteTokens >= totalCost.inputTokens
       /\ (\A k \in 1..Len(tests) : NonDecreasing(tests[k].steps))
             => result.cacheHits + result.cacheWriteTokens = totalCost.inputTokens

\* C22 witness: both functions have returned for a collection of two tests
\* with non-decreasing inputs; 4500 input tokens are billed by either.
C22_Witness ==
    /\ pc = "done" /\ totalCost # NoValue
    /\ Len(tests) = 2
    /\ InputsOf(tests[1].steps) = <<1000, 1500>>
    /\ InputsOf(tests[2].steps) = <<2000>>
    /\ result.cacheHits + result.cacheWriteTokens = 4500
    /\ totalCost.inputTokens = 4500

\* Simulation of the test at testIdx has just ended: `cache` is that test's.
TestEnded == pc = "forStep" /\ i >= Len(tests[testIdx].steps)

\* C23: agreement of the two cost models. When the simulation of a test
\* with at least one step ends, the test's TokenCache agrees with the
\* simulator's contribution for that test: getCacheStats().totalCachedTokens
\* is the test's cacheHits, currentContextTokens its cacheWriteTokens, and
\* calculateSimulatedCost() returns cacheReadCost + cacheWriteCost equal to the
\* test's simulatedInputCost and outputCost equal to its simulatedOutputCost.
C23_CostModelsAgree ==
    TestEnded
    => LET contribution == SingleResult(tests[testIdx], pricing)
           cacheStats == getCacheStats(cache)
           cacheCost == calculateSimulatedCost(cache)
       IN /\ cacheStats.totalCachedTokens = contribution.cacheHits
          /\ cacheStats.currentContextTokens = contribution.cacheWriteTokens
          /\ Plus(cacheCost.cacheReadCost, cacheCost.cacheWriteCost)
                = contribution.simulatedInputCost
          /\ cacheCost.outputCost = contribution.simulatedOutputCost

\* A TokenCache built with the table simulateCacheSavings was called with: the
\* one the simulator built, or a new one when it built none.
CacheWithSameTable == IF cache = NoCache THEN NewTokenCache(0, pricing) ELSE cache

\* C24: one notion of "cache rates missing". For every pricing table,
\* simulateCacheSavings throws its configuration error if and only if a
\* TokenCache built with the same table takes the all-zero guard branch of
\* calculateSimulatedCost; a table whose cache rates are both defined is
\* accepted by both, whatever the rates' values.
C24_SameNotionOfMissing ==
    pc \in {"threw", "forTest", "forStep", "done"}
    => /\ thrown = CachePricingError <=> CostGuard(CacheWithSameTable)
       /\ ~LacksCacheRate(pricing)
             => thrown = NoValue /\ ~CostGuard(CacheWithSameTable)

\* The largest inputTokens among the first n steps.
MaxInput(steps, n) == MaxTo(InputsOf(steps), n)

====
